---- MODULE Spec2Model ----
(***************************************************************************)
(* Model of src/src/decrypt.py: the substitution search                    *)
(* (hill_climb_substitution) with its helpers, frequency_seed_key, the     *)
(* Caesar search, the scorer and the decision; and of                      *)
(* src/src/get_quadgrams.py.                                               *)
(*                                                                         *)
(* Texts and keys are sequences of one-character strings.  Scores are      *)
(* integers: the scorer's log10 probabilities are taken in integer units,  *)
(* so that sums and comparisons are exact.                                 *)
(***************************************************************************)
EXTENDS Integers, Sequences, FiniteSets, TLC

VARIABLES
    cipher,       \* argument cipher of hill_climb_substitution / frequency_seed_key
    max_iters,    \* argument max_iters
    restarts,     \* argument restarts
    patience,     \* argument patience
    run,          \* the locals of one call of hill_climb_substitution (the code as written)
    rerun,        \* a second call, same arguments and random draws, started at another time
    bare,         \* the same call with every trace statement (infos, export) removed
    restart_log,  \* history: per restart of run, its start key and final plain and score
    seed_key,     \* result of a stand-alone call of frequency_seed_key (<<>> = not called)
    call          \* a call of one of the other functions: its arguments, locals and result

vars == <<cipher, max_iters, restarts, patience, run, rerun, bare, restart_log, seed_key, call>>

\* the variables of the substitution search and of the frequency seed
searchVars == <<cipher, max_iters, restarts, patience, run, rerun, bare, restart_log, seed_key>>

\* no other function is being called
NoCall == [fn |-> "none"]

----------------------------------------------------------------------------
(* Bounds of the model *)

\* longest ciphertext given to the stand-alone frequency_seed_key call
MaxLen == 4
\* largest max_iters argument tried
MaxIters == 3
\* largest restarts argument tried with max_iters > 0
MaxRestarts == 2
\* largest restarts argument tried with max_iters <= 0
ManyRestarts == 6
\* largest max_iters * restarts tried: the candidates one call may evaluate
MaxWork == 4
\* largest patience argument tried
MaxPatience == 2
\* the second call starts 1..MaxClockSkew clock units after the first
MaxClockSkew == 1

----------------------------------------------------------------------------
(* Alphabet and characters *)

ALPHABET ==
    << "A","B","C","D","E","F","G","H","I","J","K","L","M",
       "N","O","P","Q","R","S","T","U","V","W","X","Y","Z" >>

Letters == { ALPHABET[n] : n \in 1..26 }

\* A2I[c]: 0-based index of letter c
A2I == [ c \in Letters |-> CHOOSE n \in 0..25 : ALPHABET[n + 1] = c ]

\* I2A[i]
I2A == [ n \in 0..25 |-> ALPHABET[n + 1] ]

ENG_FREQ ==
    << "E","T","A","O","I","N","S","H","R","D","L","C","U",
       "M","W","F","G","Y","P","B","V","K","J","X","Q","Z" >>

\* str.upper() on one character, for the characters the model uses
Upper(ch) ==
    CASE ch = "a" -> "A"
      [] ch = "b" -> "B"
      [] ch = "c" -> "C"
      [] ch = "z" -> "Z"
      [] ch = "d" -> "D"
      [] ch = "h" -> "H"
      [] ch = "w" -> "W"
      [] OTHER -> ch

RECURSIVE only_letters(_)
only_letters(text) ==
    IF text = <<>> THEN <<>>
    ELSE LET ch == Upper(Head(text))
         IN  (IF ch \in Letters THEN <<ch>> ELSE <<>>) \o only_letters(Tail(text))

\* the dictionary {CIPHER -> PLAIN} built by zip(ALPHABET, s)
str_to_key(s) ==
    LET n == IF Len(s) < 26 THEN Len(s) ELSE 26
    IN  [ c \in { ALPHABET[k] : k \in 1..n } |-> s[A2I[c] + 1] ]

apply_substitution(text, key_map) ==
    [ p \in 1..Len(text) |->
        IF text[p] \in Letters
        THEN (IF text[p] \in DOMAIN key_map THEN key_map[text[p]] ELSE text[p])
        ELSE text[p] ]

decrypt_with_key(text, key_s) ==
    apply_substitution(only_letters(text), str_to_key(key_s))

----------------------------------------------------------------------------
(* frequency_seed_key *)

\* Counter(...): the distinct letters in order of first occurrence (dict order)
RECURSIVE CounterKeys(_, _)
CounterKeys(t, seen) ==
    IF t = <<>> THEN <<>>
    ELSE IF Head(t) \in seen THEN CounterKeys(Tail(t), seen)
         ELSE <<Head(t)>> \o CounterKeys(Tail(t), seen \cup {Head(t)})

\* Counter(...)[c]
Count(t, c) == Cardinality({ p \in 1..Len(t) : t[p] = c })

\* insert c into the sorted sequence s after every element whose count is >= its own
RECURSIVE InsertByCount(_, _, _)
InsertByCount(s, c, t) ==
    IF s = <<>> THEN <<c>>
    ELSE IF Count(t, Head(s)) >= Count(t, c)
         THEN <<Head(s)>> \o InsertByCount(Tail(s), c, t)
         ELSE <<c>> \o s

RECURSIVE SortByCount(_, _)
SortByCount(ks, t) ==
    IF ks = <<>> THEN <<>>
    ELSE InsertByCount(SortByCount(SubSeq(ks, 1, Len(ks) - 1), t), ks[Len(ks)], t)

\* mutant: the Counter's keys in insertion order, not sorted by count
most_common_unsorted(t) == CounterKeys(t, {})

\* Counter.most_common(): keys by descending count, equal counts in insertion order
most_common(t) == SortByCount(CounterKeys(t, {}), t)

RECURSIVE Absent(_, _)
Absent(n, present) ==
    IF n > 26 THEN <<>>
    ELSE (IF ALPHABET[n] \in present THEN <<>> ELSE <<ALPHABET[n]>>)
         \o Absent(n + 1, present)

cipher_order(text) ==
    LET t  == only_letters(text)
        mc == most_common(t)
    IN  mc \o Absent(1, { t[p] : p \in 1..Len(t) })

\* for i, c in enumerate(cipher_order[:26]): dest[A2I[c]] = ENG_FREQ[i]
RECURSIVE FillDest(_, _, _)
FillDest(dest, order, n) ==
    IF n > Len(order) \/ n > 26 THEN dest
    ELSE FillDest([dest EXCEPT ![A2I[order[n]] + 1] = ENG_FREQ[n]], order, n + 1)

\* for i in range(26): if dest[i] == '?': dest[i] = rest.pop()
RECURSIVE FillHoles(_, _, _)
FillHoles(dest, rest, n) ==
    IF n > 26 THEN dest
    ELSE IF dest[n] = "?"
         THEN FillHoles([dest EXCEPT ![n] = rest[Len(rest)]],
                        SubSeq(rest, 1, Len(rest) - 1), n + 1)
         ELSE FillHoles(dest, rest, n + 1)

frequency_seed_key(text) ==
    LET dest == FillDest([n \in 1..26 |-> "?"], cipher_order(text), 1)
        rest == Absent(1, { dest[n] : n \in 1..26 })
    IN  FillHoles(dest, rest, 1)

----------------------------------------------------------------------------
(* QuadgramScorer: a small table, log10 probabilities in integer units *)

log_probs ==
    ( << "T","A","E","T" >> :> -3 ) @@
    ( << "T","E","A","T" >> :> -4 ) @@
    ( << "A","E","T","A" >> :> -4 ) @@
    ( << "E","A","T","E" >> :> -4 ) @@
    ( << "A","T","E","A" >> :> -5 )

\* QuadgramScorer.floor: the log-probability of a gram absent from the table
floor == -9

\* the value score() returns for a text of fewer than 4 letters: -1e9
TooShortScore == -1000000000

\* the loop of score() on the letters t from window n on, for a scorer with
\* table lp and floor fl
RECURSIVE SumGramsWith(_, _, _, _)
SumGramsWith(lp, fl, t, n) ==
    IF n > Len(t) - 3 THEN 0
    ELSE LET g == SubSeq(t, n, n + 3)
         IN  (IF g \in DOMAIN lp THEN lp[g] ELSE fl)
             + SumGramsWith(lp, fl, t, n + 1)

\* QuadgramScorer(lp, fl).score(text)
ScoreWith(lp, fl, text) ==
    LET t == only_letters(text)
    IN  IF Len(t) < 4 THEN TooShortScore ELSE SumGramsWith(lp, fl, t, 1)

SumGrams(t, n) == SumGramsWith(log_probs, floor, t, n)

\* QuadgramScorer.score of the scorer the searches use
Score(text) == ScoreWith(log_probs, floor, text)

----------------------------------------------------------------------------
(* Keys *)

\* random_key(): the dictionary built from the shuffled alphabet perm
random_key(perm) == [ c \in Letters |-> perm[A2I[c] + 1] ]

key_to_str(key_map) == [ n \in 1..26 |-> key_map[ALPHABET[n]] ]

\* the outcomes of random.shuffle the model draws from
Shuffles == { ALPHABET, ENG_FREQ }

\* mutant: the second assignment of the swap is lost
tweak_key_overwrite(key_s, a, b) == [key_s EXCEPT ![a + 1] = key_s[b + 1]]

\* tweak_key, with (a, b) the result of random.sample(range(26), 2)
tweak_key(key_s, a, b) ==
    [key_s EXCEPT ![a + 1] = key_s[b + 1], ![b + 1] = key_s[a + 1]]

\* the outcomes of random.sample(range(26), 2) the model draws from: the swaps
\* among the first three positions, one of them in both orders, and a swap of
\* two positions whose letters are in no ciphertext of the model
SwapDraws == { <<0, 1>>, <<1, 0>>, <<0, 2>>, <<1, 2>>, <<24, 25>> }

----------------------------------------------------------------------------
(* hill_climb_substitution: the locals of one call, as a record *)

\* a local variable that has not been assigned yet (i, j before their loops run)
Unbound == -1

\* Python's None (the j column of an "initial" trace row)
None == -2

\* the initial best_score, -1e100: below every score, represented by -2 * 10^9
LowestScore == -2000000000

Max(a, b) == IF a >= b THEN a ELSE b

\* mutant: restarts // 3 without the lower limit of one
seed_count_unclamped(n) == n \div 3

\* the number of random seeds: max(1, restarts // 3)
seed_count(n) == Max(1, n \div 3)

\* mutant: equal scores are accepted too
Accepts_or_equal(cand_score, score) == cand_score >= score

\* the acceptance test of the inner loop
Accepts(cand_score, score) == cand_score > score

\* mutant: stagnation only once no_gain exceeds patience
Stagnated_late(no_gain, p) == no_gain > p

\* the stagnation test of the inner loop
Stagnated(no_gain, p) == no_gain >= p

\* mutant: a restart that equals the best replaces it
Improves_or_equal(score, best_score) == score >= best_score

\* the global-best test after a restart
Improves(score, best_score) == score > best_score

\* a trace row: (type, this_iteration_score, best_score_so_far, i, j, timestamp)
Info(type, this, so_far, i, j, ts) ==
    [ type |-> type, this_iteration_score |-> this, best_score_so_far |-> so_far,
      i |-> i, j |-> j, timestamp |-> ts ]

\* the state at the first line of the seed loop; t0 is the clock at the call,
\* every get_timestamp() reads the clock and the clock moves on by one
NewRun(text, t0) ==
    [ pc |-> "seeds",
      best_text |-> <<>>, best_score |-> LowestScore,
      seeds |-> << frequency_seed_key(text) >>,
      infos |-> <<>>, initial_timestamp |-> Unbound,
      i |-> Unbound, j |-> Unbound, next_j |-> 0,
      key_s |-> <<>>, plain |-> <<>>, score |-> 0, no_gain |-> 0,
      cand_key |-> <<>>, cand_plain |-> <<>>, cand_score |-> 0,
      now |-> t0, error |-> "", returned |-> <<>> ]

\* one pass of the seed loop
add_seed(r, perm) ==
    IF r.pc = "seeds" /\ Len(r.seeds) - 1 < seed_count(restarts)
    THEN [r EXCEPT !.seeds = Append(r.seeds, key_to_str(random_key(perm)))]
    ELSE r

\* infos = []; initial_timestamp = get_timestamp(); then the head of the restart loop
begin_search(r, tracing) ==
    IF r.pc = "seeds" /\ Len(r.seeds) - 1 >= seed_count(restarts)
    THEN [r EXCEPT !.pc = IF restarts > 0 THEN "restart" ELSE "export",
                   !.initial_timestamp = IF tracing THEN r.now ELSE Unbound,
                   !.now = IF tracing THEN r.now + 1 ELSE r.now]
    ELSE r

\* mutant: the seed is taken by the clock, not by the random draw
begin_restart_by_clock(r, pick, tracing) ==
    IF r.pc = "restart"
    THEN LET key   == r.seeds[(r.now % Len(r.seeds)) + 1]
             plain == decrypt_with_key(cipher, key)
             score == Score(plain)
             i     == r.i + 1
         IN  [r EXCEPT !.pc = IF max_iters > 0 THEN "step" ELSE "finish",
                       !.i = i, !.next_j = 0,
                       !.key_s = key, !.plain = plain, !.score = score,
                       !.no_gain = 0,
                       !.infos = IF tracing
                                 THEN Append(r.infos, Info("initial", score, score, i, None, r.now))
                                 ELSE r.infos,
                       !.now = IF tracing THEN r.now + 1 ELSE r.now]
    ELSE r

\* the restart loop up to the inner loop; pick is the index random.choice draws
begin_restart(r, pick, tracing) ==
    IF r.pc = "restart"
    THEN LET key   == r.seeds[pick]
             plain == decrypt_with_key(cipher, key)
             score == Score(plain)
             i     == r.i + 1
         IN  [r EXCEPT !.pc = IF max_iters > 0 THEN "step" ELSE "finish",
                       !.i = i, !.next_j = 0,
                       !.key_s = key, !.plain = plain, !.score = score,
                       !.no_gain = 0,
                       !.infos = IF tracing
                                 THEN Append(r.infos, Info("initial", score, score, i, None, r.now))
                                 ELSE r.infos,
                       !.now = IF tracing THEN r.now + 1 ELSE r.now]
    ELSE r

\* mutant: the stagnated pass logs its row and the inner loop goes on
climb_step_no_break(r, a, b, tracing) ==
    IF r.pc = "step"
    THEN LET j          == r.next_j
             cand_key   == tweak_key(r.key_s, a, b)
             cand_plain == decrypt_with_key(cipher, cand_key)
             cand_score == Score(cand_plain)
             accept     == Accepts(cand_score, r.score)
             no_gain    == IF accept THEN 0 ELSE r.no_gain + 1
             break      == ~accept /\ Stagnated(no_gain, patience)
             type       == IF accept THEN "good candidate"
                           ELSE IF break THEN "restarting" ELSE "bad candidate"
             score      == IF accept THEN cand_score ELSE r.score
         IN  [r EXCEPT !.pc = IF j + 1 >= max_iters THEN "finish" ELSE "step",
                       !.j = j, !.next_j = j + 1,
                       !.cand_key = cand_key, !.cand_plain = cand_plain,
                       !.cand_score = cand_score,
                       !.key_s = IF accept THEN cand_key ELSE r.key_s,
                       !.plain = IF accept THEN cand_plain ELSE r.plain,
                       !.score = score,
                       !.no_gain = no_gain,
                       !.infos = IF tracing
                                 THEN Append(r.infos, Info(type, cand_score, score, r.i, j, r.now))
                                 ELSE r.infos,
                       !.now = IF tracing THEN r.now + 1 ELSE r.now]
    ELSE r

\* one pass of the inner loop; (a, b) are the positions tweak_key draws
climb_step(r, a, b, tracing) ==
    IF r.pc = "step"
    THEN LET j          == r.next_j
             cand_key   == tweak_key(r.key_s, a, b)
             cand_plain == decrypt_with_key(cipher, cand_key)
             cand_score == Score(cand_plain)
             accept     == Accepts(cand_score, r.score)
             no_gain    == IF accept THEN 0 ELSE r.no_gain + 1
             break      == ~accept /\ Stagnated(no_gain, patience)
             type       == IF accept THEN "good candidate"
                           ELSE IF break THEN "restarting" ELSE "bad candidate"
             score      == IF accept THEN cand_score ELSE r.score
         IN  [r EXCEPT !.pc = IF break \/ j + 1 >= max_iters THEN "finish" ELSE "step",
                       !.j = j, !.next_j = j + 1,
                       !.cand_key = cand_key, !.cand_plain = cand_plain,
                       !.cand_score = cand_score,
                       !.key_s = IF accept THEN cand_key ELSE r.key_s,
                       !.plain = IF accept THEN cand_plain ELSE r.plain,
                       !.score = score,
                       !.no_gain = no_gain,
                       !.infos = IF tracing
                                 THEN Append(r.infos, Info(type, cand_score, score, r.i, j, r.now))
                                 ELSE r.infos,
                       !.now = IF tracing THEN r.now + 1 ELSE r.now]
    ELSE r

\* after the inner loop: the global best, its trace row, and the loop head.
\* The trace row reads j, which is unbound when the inner loop never ran.
end_restart(r, tracing) ==
    IF r.pc = "finish"
    THEN LET better == Improves(r.score, r.best_score)
             after  == [r EXCEPT !.best_text = IF better THEN r.plain ELSE r.best_text,
                                 !.best_score = IF better THEN r.score ELSE r.best_score,
                                 !.pc = IF r.i + 1 < restarts THEN "restart" ELSE "export"]
         IN  IF better /\ tracing
             THEN IF r.j = Unbound
                  THEN [after EXCEPT !.pc = "error", !.error = "UnboundLocalError"]
                  ELSE [after EXCEPT
                          !.infos = Append(r.infos,
                              Info("really good candidate", r.score, r.score, r.i, r.j, r.now)),
                          !.now = r.now + 1]
             ELSE after
    ELSE r

\* the export of the trace and the return statement
export_and_return(r) ==
    IF r.pc = "export"
    THEN [r EXCEPT !.pc = "done", !.returned = << r.best_text, r.best_score >>]
    ELSE r

----------------------------------------------------------------------------
(* The search: three calls fed the same random draws, step by step *)

Ciphers ==
    { << "A", "B", "C", "A" >>,
      << "a", "-", "B", "C", "A", "B" >>,
      << "A", "B" >> }

\* some call is at control point p
At(p) == p \in { run.pc, rerun.pc, bare.pc }

Init ==
    /\ cipher \in Ciphers
    /\ max_iters \in -1..MaxIters
    /\ restarts \in -1..ManyRestarts
    /\ (max_iters > 0 /\ restarts > 0) =>
          (restarts <= MaxRestarts /\ max_iters * restarts <= MaxWork)
    /\ patience \in 0..MaxPatience
    /\ run = NewRun(cipher, 0)
    /\ rerun \in { NewRun(cipher, t0) : t0 \in 1..MaxClockSkew }
    /\ bare = NewRun(cipher, 0)
    /\ restart_log = <<>>
    /\ seed_key = <<>>
    /\ call = NoCall

AddSeed ==
    /\ At("seeds") /\ Len(run.seeds) - 1 < seed_count(restarts)
    /\ \E perm \in Shuffles :
         /\ run' = add_seed(run, perm)
         /\ rerun' = add_seed(rerun, perm)
         /\ bare' = add_seed(bare, perm)
    /\ UNCHANGED <<cipher, max_iters, restarts, patience, restart_log, seed_key, call>>

BeginSearch ==
    /\ At("seeds") /\ Len(run.seeds) - 1 >= seed_count(restarts)
    /\ run' = begin_search(run, TRUE)
    /\ rerun' = begin_search(rerun, TRUE)
    /\ bare' = begin_search(bare, FALSE)
    /\ UNCHANGED <<cipher, max_iters, restarts, patience, restart_log, seed_key, call>>

BeginRestart ==
    /\ At("restart")
    /\ \E pick \in 1..Len(bare.seeds) :
         /\ run' = begin_restart(run, pick, TRUE)
         /\ rerun' = begin_restart(rerun, pick, TRUE)
         /\ bare' = begin_restart(bare, pick, FALSE)
    /\ restart_log' =
         IF run.pc = "restart"
         THEN Append(restart_log,
                     [start |-> run'.key_s, concluded |-> FALSE,
                      plain |-> <<>>, score |-> 0])
         ELSE restart_log
    /\ UNCHANGED <<cipher, max_iters, restarts, patience, seed_key, call>>

ClimbStep ==
    /\ At("step")
    /\ \E ab \in SwapDraws :
         /\ run' = climb_step(run, ab[1], ab[2], TRUE)
         /\ rerun' = climb_step(rerun, ab[1], ab[2], TRUE)
         /\ bare' = climb_step(bare, ab[1], ab[2], FALSE)
    /\ UNCHANGED <<cipher, max_iters, restarts, patience, restart_log, seed_key, call>>

EndRestart ==
    /\ At("finish")
    /\ run' = end_restart(run, TRUE)
    /\ rerun' = end_restart(rerun, TRUE)
    /\ bare' = end_restart(bare, FALSE)
    /\ restart_log' =
         IF run.pc = "finish" /\ run'.pc # "error"
         THEN [restart_log EXCEPT ![Len(restart_log)] =
                 [@ EXCEPT !.concluded = TRUE, !.plain = run.plain, !.score = run.score]]
         ELSE restart_log
    /\ UNCHANGED <<cipher, max_iters, restarts, patience, seed_key, call>>

Return ==
    /\ At("export")
    /\ run' = export_and_return(run)
    /\ rerun' = export_and_return(rerun)
    /\ bare' = export_and_return(bare)
    /\ UNCHANGED <<cipher, max_iters, restarts, patience, restart_log, seed_key, call>>

Next ==
    \/ AddSeed
    \/ BeginSearch
    \/ BeginRestart
    \/ ClimbStep
    \/ EndRestart
    \/ Return

Spec == Init /\ [][Next]_vars

----------------------------------------------------------------------------
(* Properties of the search *)

\* k holds each of the 26 letters exactly once
IsPermutation(k) ==
    /\ DOMAIN k = 1..26
    /\ { k[n] : n \in 1..26 } = Letters

\* run took a pass of the inner loop in this step
StepTaken == run.pc = "step" /\ run'.next_j = run.next_j + 1

\* the key differs from the other in exactly two positions
IsSwapOf(k1, k2) ==
    /\ DOMAIN k1 = DOMAIN k2
    /\ Cardinality({ n \in DOMAIN k1 : k1[n] # k2[n] }) = 2

\* C1: in every step of every restart the current (key, plaintext, score) becomes
\* the candidate exactly when the candidate's score is strictly greater than the
\* current score, and is unchanged otherwise; the current score never decreases
\* within a restart.
C1_StrictAscent ==
    [][ /\ StepTaken =>
              LET cand == << run'.cand_key, run'.cand_plain, run'.cand_score >>
                  cur  == << run.key_s, run.plain, run.score >>
                  new  == << run'.key_s, run'.plain, run'.score >>
              IN  /\ IsSwapOf(run'.cand_key, run.key_s)
                  /\ run'.cand_plain = decrypt_with_key(cipher, run'.cand_key)
                  /\ run'.cand_score = Score(run'.cand_plain)
                  /\ IF run'.cand_score > run.score THEN new = cand ELSE new = cur
        /\ (run.i # Unbound /\ run'.i = run.i) => run'.score >= run.score
      ]_vars

\* a candidate of equal score and another key was rejected right after a
\* candidate of the same restart had been accepted
C1_Witness ==
    /\ run.pc \in {"step", "finish"}
    /\ run.j = 1
    /\ run.no_gain = 1
    /\ run.cand_score = run.score
    /\ run.cand_key # run.key_s
    /\ run.infos[Len(run.infos) - 1].type = "good candidate"

\* the number of rejected candidates at the end of the trace
RECURSIVE TrailingRejected(_)
TrailingRejected(infos) ==
    IF infos = <<>> THEN 0
    ELSE IF infos[Len(infos)].type \in {"bad candidate", "restarting"}
         THEN 1 + TrailingRejected(SubSeq(infos, 1, Len(infos) - 1))
         ELSE 0

\* C2 as stated: once no_gain has reached patience no further step of the
\* restart runs, and a restart abandoned for stagnation stops with no_gain equal
\* to patience.
C2_AbandonedWhenReached ==
    /\ run.pc = "step" => run.no_gain < patience
    /\ (run.pc = "finish" /\ run.j # Unbound /\ run.cand_score <= run.score
          /\ run.next_j < max_iters)
       => run.no_gain = patience

\* C2, amended: no_gain is the number of consecutive non-improving steps since
\* the restart began or the last accepted candidate; the restart ends at exactly
\* the first non-improving step that leaves no_gain >= patience (for
\* patience >= 1 that is the step where no_gain equals patience, for
\* patience <= 0 the first non-improving step) or at the step that exhausts
\* max_iters; once it has ended no further step of that restart runs.
C2_Stagnation ==
    [][ /\ (run.pc = "restart" /\ run'.pc # "restart") =>
              /\ run'.no_gain = 0
              /\ run'.i = run.i + 1
        /\ StepTaken =>
              LET improving == run'.score > run.score
                  stagnated == ~improving /\ run'.no_gain >= patience
              IN  /\ run'.no_gain = IF improving THEN 0 ELSE run.no_gain + 1
                  /\ run'.no_gain = TrailingRejected(run'.infos)
                  /\ (run'.pc = "finish") <=> (stagnated \/ run'.next_j >= max_iters)
                  /\ run'.pc \in {"step", "finish"}
                  /\ (stagnated /\ patience >= 1) => run'.no_gain = patience
                  /\ (stagnated /\ patience <= 0) => run'.no_gain = 1
                  /\ run'.i = run.i
        /\ run'.next_j # run.next_j =>
              \/ StepTaken
              \/ run.pc = "restart" /\ run'.next_j = 0
      ]_vars

\* a restart was abandoned for stagnation at no_gain = patience with steps of
\* max_iters left, after an accepted candidate had reset the count
C2_Witness ==
    /\ run.pc = "finish"
    /\ patience = 1
    /\ run.no_gain = 1
    /\ run.j = 1
    /\ run.next_j < max_iters
    /\ run.infos[Len(run.infos)].type = "restarting"
    /\ run.infos[Len(run.infos) - 1].type = "good candidate"

\* the restarts of run that have concluded
Concluded == { k \in 1..Len(restart_log) : restart_log[k].concluded }

\* C3: after a restart concludes best_score is the maximum of the final scores
\* of the restarts so far and best_text the final plaintext of the earliest
\* restart with that score; best_score never decreases; the returned pair is
\* this global best.
C3_GlobalBest ==
    [][ /\ (run'.pc \in {"restart", "export", "done"} /\ Concluded' # {}) =>
              /\ Concluded' = 1..Len(restart_log')
              /\ \A k \in Concluded' : restart_log'[k].score <= run'.best_score
              /\ \E k \in Concluded' :
                    /\ restart_log'[k].score = run'.best_score
                    /\ restart_log'[k].plain = run'.best_text
                    /\ \A m \in 1..(k - 1) : restart_log'[m].score < run'.best_score
        /\ run'.best_score >= run.best_score
        /\ run'.pc = "done" => run'.returned = << run'.best_text, run'.best_score >>
        /\ (run.pc = "finish" /\ run'.pc # "error") =>
              /\ restart_log'[Len(restart_log')].plain = run.plain
              /\ restart_log'[Len(restart_log')].score = run.score
      ]_vars

\* the call returned the first restart's plaintext although the last restart
\* ended with the same score and another plaintext
C3_Witness ==
    /\ run.pc = "done"
    /\ Len(restart_log) = 2
    /\ restart_log[1].score = restart_log[2].score
    /\ restart_log[1].plain # restart_log[2].plain
    /\ run.returned = << restart_log[1].plain, restart_log[1].score >>
    /\ run.plain = restart_log[2].plain

\* C4: with restarts >= 1 and max_iters >= 0 (max_iters = 0 included) and any
\* patience the search raises no error.
C4_NeverRaises ==
    (restarts >= 1 /\ max_iters >= 0) => run.pc # "error"

\* C5: with restarts <= 0 or max_iters < 0 the call runs no restart, returns no
\* result, and the only way it ends is an InvalidConfiguration error.
C5_RejectsConfiguration ==
    (restarts <= 0 \/ max_iters < 0) =>
        /\ run.i = Unbound
        /\ run.pc # "done"
        /\ run.pc = "error" => run.error = "InvalidConfiguration"

\* C6: the call with the trace and the call without it, fed the same draws,
\* return the same pair, and neither raises an error where the other returns.
C6_TraceHasNoEffect ==
    /\ (run.pc = "done" /\ bare.pc = "done") => run.returned = bare.returned
    /\ ~(run.pc = "error" /\ bare.pc = "done")
    /\ ~(bare.pc = "error" /\ run.pc = "done")

\* what a call has computed, the trace and the clock left out
Outcome(r) ==
    << r.pc, r.seeds, r.i, r.j, r.key_s, r.plain, r.score, r.no_gain,
       r.best_text, r.best_score, r.error, r.returned >>

\* C7: two calls with the same arguments and the same random draws, started at
\* different times, pass through the same current keys and end alike, with
\* the same best plaintext and best score.
C7_Deterministic ==
    /\ Outcome(run) = Outcome(rerun)
    /\ Len(run.infos) = Len(rerun.infos)
    /\ \A n \in 1..Len(run.infos) :
          [run.infos[n] EXCEPT !.timestamp = 0] = [rerun.infos[n] EXCEPT !.timestamp = 0]

\* two calls started at different times have both returned after two restarts
\* with accepted candidates, with traces that differ in their timestamps only
C7_Witness ==
    /\ run.pc = "done" /\ rerun.pc = "done"
    /\ run.i = 1
    /\ run.key_s \notin { run.seeds[n] : n \in 1..Len(run.seeds) }
    /\ run.initial_timestamp # rerun.initial_timestamp
    /\ run.infos # rerun.infos
    /\ run.returned = rerun.returned

\* the keys a call holds: the seed pool, the current key, the last candidate
KeysOf(r) ==
    { r.seeds[n] : n \in 1..Len(r.seeds) }
    \cup (IF r.i # Unbound THEN {r.key_s} ELSE {})
    \cup (IF r.j # Unbound THEN {r.cand_key} ELSE {})

\* C8: every key of the seed pool, the current key and each candidate key is a
\* permutation of the 26 letters, after any number of swaps.
C8_KeysArePermutations ==
    \A k \in KeysOf(run) : IsPermutation(k)

\* the current key is two accepted swaps away from its seed, and the last
\* candidate is a rejected swap of it
C8_Witness ==
    /\ run.j = 2
    /\ run.no_gain = 1
    /\ run.cand_key # run.key_s
    /\ Cardinality({ n \in 1..26 : run.key_s[n] # restart_log[Len(restart_log)].start[n] }) = 3
    /\ IsPermutation(run.key_s) /\ IsPermutation(run.cand_key)

\* the number of random seeds C9 states for a restarts argument
RandomSeedsFor(n) ==
    IF n < 3 THEN 1 ELSE CHOOSE q \in 1..n : 3 * q <= n /\ n < 3 * q + 3

\* C9: the seed pool is the frequency seed followed by max(1, restarts // 3)
\* random permutations, complete before the first restart; no step or restart
\* changes it; every restart starts from an element of it.
C9_FixedSeedPool ==
    [][ /\ run'.pc # "seeds" =>
              /\ Len(run'.seeds) = 1 + RandomSeedsFor(restarts)
              /\ run'.seeds[1] = frequency_seed_key(cipher)
              /\ \A n \in 2..Len(run'.seeds) :
                    run'.seeds[n] \in Shuffles /\ IsPermutation(run'.seeds[n])
        /\ run.pc # "seeds" => run'.seeds = run.seeds
        /\ run.pc = "seeds" => run'.i = Unbound
        /\ (run.pc = "restart" /\ run'.i # run.i) =>
              /\ \E n \in 1..Len(run.seeds) : run'.key_s = run.seeds[n]
              /\ restart_log'[Len(restart_log')].start = run'.key_s
      ]_vars

\* two restarts of one call started from the same element of a pool of two
C9_Witness ==
    /\ run.pc = "done"
    /\ Len(run.seeds) = 2
    /\ Len(restart_log) = 2
    /\ restart_log[1].start = restart_log[2].start
    /\ restart_log[1].start = run.seeds[2]

----------------------------------------------------------------------------
(* Stand-alone call of frequency_seed_key on every short ciphertext *)

SeedChars == { "A", "B", "Z", "b", "-" }

SeedCiphers == UNION { [1..n -> SeedChars] : n \in 0..MaxLen }

NotStarted == [pc |-> "idle"]

SeedInit ==
    /\ cipher \in SeedCiphers
    /\ seed_key = <<>>
    /\ max_iters = 0 /\ restarts = 0 /\ patience = 0
    /\ run = NotStarted /\ rerun = NotStarted /\ bare = NotStarted
    /\ restart_log = <<>>
    /\ call = NoCall

CallFrequencySeed ==
    /\ seed_key = <<>>
    /\ seed_key' = frequency_seed_key(cipher)
    /\ UNCHANGED <<cipher, max_iters, restarts, patience, run, rerun, bare, restart_log, call>>

SeedNext == CallFrequencySeed

SeedSpec == SeedInit /\ [][SeedNext]_vars

----------------------------------------------------------------------------
(* Properties of frequency_seed_key *)

\* 1-based rank of a letter in ENG_FREQ
FreqRank(x) == CHOOSE n \in 1..26 : ENG_FREQ[n] = x

\* number of occurrences of letter c in the ciphertext, case folded
Occurrences(text, c) == Cardinality({ p \in 1..Len(text) : Upper(text[p]) = c })

\* C10: frequency_seed_key returns a permutation of A-Z; the letters present in
\* the ciphertext get the first letters of ETAOINSHRDLCUMWFGYPBVKJXQZ, a more
\* frequent letter an earlier one; the absent letters get the remaining letters,
\* in alphabetical order.
C10_FrequencySeed ==
    seed_key # <<>> =>
        LET present == { c \in Letters : Occurrences(cipher, c) > 0 }
            img(c)  == FreqRank(seed_key[A2I[c] + 1])
        IN  /\ IsPermutation(seed_key)
            /\ \A c \in present : img(c) <= Cardinality(present)
            /\ \A c, d \in present :
                   Occurrences(cipher, c) > Occurrences(cipher, d) => img(c) < img(d)
            /\ \A c, d \in Letters \ present :
                   A2I[c] < A2I[d] => img(c) < img(d)

\* a ciphertext with a lower-case letter, a non-letter, two frequencies and
\* absent letters has been given a seed key
C10_Witness ==
    /\ seed_key # <<>>
    /\ cipher = << "b", "A", "-", "B" >>
    /\ seed_key[2] = "E" /\ seed_key[1] = "T" /\ seed_key[3] = "A" /\ seed_key[26] = "Z"

----------------------------------------------------------------------------
(* The other functions share the variable call; the search stands still *)

SearchIdle ==
    /\ cipher = <<>>
    /\ max_iters = 0 /\ restarts = 0 /\ patience = 0
    /\ run = NotStarted /\ rerun = NotStarted /\ bare = NotStarted
    /\ restart_log = <<>>
    /\ seed_key = <<>>

----------------------------------------------------------------------------
(* apply_caesar and break_caesar *)

\* longest text given to break_caesar
MaxCaesarLen == 4
\* longest text given to the encrypt-then-decrypt round trip
MaxPlainLen == 3

\* the default of break_caesar's top_k, and the value main passes
DefaultTopK == 5

\* mutant: the index wraps at 25
apply_caesar_mod25(text, shift) ==
    LET t == SelectSeq(text, LAMBDA ch : ch \in Letters)
    IN  [ p \in 1..Len(t) |-> I2A[(A2I[t[p]] - shift) % 25] ]

\* apply_caesar: the characters 'A'..'Z' of text, each moved by -shift; no upper()
apply_caesar(text, shift) ==
    LET t == SelectSeq(text, LAMBDA ch : ch \in Letters)
    IN  [ p \in 1..Len(t) |-> I2A[(A2I[t[p]] - shift) % 26] ]

\* the loop of break_caesar: the candidates (shift, score, pt) for shift..25
RECURSIVE CaesarCandidates(_, _)
CaesarCandidates(text, shift) ==
    IF shift > 25 THEN <<>>
    ELSE LET pt == apply_caesar(only_letters(text), shift)
         IN  << [shift |-> shift, score |-> Score(pt), pt |-> pt] >>
             \o CaesarCandidates(text, shift + 1)

\* mutant: x goes before the elements of equal score
RECURSIVE InsertByScoreFirst(_, _)
InsertByScoreFirst(s, x) ==
    IF s = <<>> THEN <<x>>
    ELSE IF Head(s).score > x.score
         THEN <<Head(s)>> \o InsertByScoreFirst(Tail(s), x)
         ELSE <<x>> \o s

\* x goes after every element of s whose score is >= its own
RECURSIVE InsertByScore(_, _)
InsertByScore(s, x) ==
    IF s = <<>> THEN <<x>>
    ELSE IF Head(s).score >= x.score
         THEN <<Head(s)>> \o InsertByScore(Tail(s), x)
         ELSE <<x>> \o s

\* candidates.sort(key=lambda x: x[1], reverse=True): stable, by descending score
RECURSIVE SortByScore(_)
SortByScore(cs) ==
    IF cs = <<>> THEN <<>>
    ELSE InsertByScore(SortByScore(SubSeq(cs, 1, Len(cs) - 1)), cs[Len(cs)])

\* mutant: the slice is left out
PySlice_all(s, k) == s

\* s[:k]
PySlice(s, k) ==
    LET n == IF k >= 0 THEN (IF k < Len(s) THEN k ELSE Len(s))
             ELSE (IF Len(s) + k > 0 THEN Len(s) + k ELSE 0)
    IN  SubSeq(s, 1, n)

break_caesar(text, top_k) ==
    PySlice(SortByScore(CaesarCandidates(text, 1)), top_k)

CaesarChars == { "W", "H", "D", "d", "-" }

CaesarCiphers == UNION { [1..n -> CaesarChars] : n \in 0..MaxCaesarLen }

TopKs == { -1, 0, 1, DefaultTopK, 25, 30 }

CaesarInit ==
    /\ SearchIdle
    /\ call \in { [fn |-> "break_caesar", pc |-> "called", cipher |-> c, top_k |-> k,
                   result |-> <<>>] : c \in CaesarCiphers, k \in TopKs }

BreakCaesar ==
    /\ call.fn = "break_caesar" /\ call.pc = "called"
    /\ call' = [call EXCEPT !.pc = "returned",
                            !.result = break_caesar(call.cipher, call.top_k)]
    /\ UNCHANGED searchVars

CaesarNext == BreakCaesar

CaesarSpec == CaesarInit /\ [][CaesarNext]_vars

\* the letter that lies s places before letter c, counted around the alphabet
MovedBack(c, s) == CHOOSE x \in Letters : (A2I[x] + s) % 26 = A2I[c]

\* the letters of a ciphertext, case folded, non-letters left out
RECURSIVE LettersOf(_)
LettersOf(text) ==
    IF text = <<>> THEN <<>>
    ELSE (IF Upper(Head(text)) \in Letters THEN << Upper(Head(text)) >> ELSE <<>>)
         \o LettersOf(Tail(text))

\* x is the candidate of its shift: the cipher's letters moved back, and its score
IsCandidateOf(x, text) ==
    /\ x.shift \in 1..25
    /\ Len(x.pt) = Len(LettersOf(text))
    /\ \A p \in 1..Len(x.pt) : x.pt[p] = MovedBack(LettersOf(text)[p], x.shift)
    /\ x.score = Score(x.pt)

\* C11 as stated: the Caesar search returns exactly 25 candidates, one for each
\* shift 1..25, each the cipher's letters moved back by its shift, with its score.
C11_Returns25 ==
    (call.fn = "break_caesar" /\ call.pc = "returned") =>
        /\ Len(call.result) = 25
        /\ \A s \in 1..25 : \E n \in 1..Len(call.result) : call.result[n].shift = s
        /\ \A n \in 1..Len(call.result) : IsCandidateOf(call.result[n], call.cipher)

\* C11, amended: the Caesar search builds one candidate for each shift 1..25 and
\* none for shift 0, and returns the slice [:top_k] of their ranking: top_k of
\* them for 0 <= top_k <= 25 (5 by default), all 25 for top_k >= 25, all but the
\* last -top_k for top_k < 0.  The returned candidates have distinct shifts, each
\* is the cipher's letters moved back by its shift with that text's score, and
\* no shift left out scores higher than a returned one.
C11_ReturnsTopK ==
    (call.fn = "break_caesar" /\ call.pc = "returned") =>
        LET res  == call.result
            k    == call.top_k
            kept == { res[n].shift : n \in 1..Len(res) }
        IN  /\ Len(res) = IF k >= 25 THEN 25 ELSE IF k >= 0 THEN k
                          ELSE IF k >= -25 THEN 25 + k ELSE 0
            /\ \A n \in 1..Len(res) : IsCandidateOf(res[n], call.cipher)
            /\ \A n, m \in 1..Len(res) : res[n].shift = res[m].shift => n = m
            /\ \A s \in (1..25) \ kept : \A n \in 1..Len(res) :
                  Score([ p \in 1..Len(LettersOf(call.cipher)) |->
                            MovedBack(LettersOf(call.cipher)[p], s) ]) <= res[n].score

\* the default top_k returned five candidates of a ciphertext with a lower-case
\* letter and a non-letter, the best of them the one of shift 3
C11_Witness ==
    /\ call.fn = "break_caesar" /\ call.pc = "returned"
    /\ call.cipher = << "W", "H", "-", "d", "W" >> \/ call.cipher = << "W", "H", "d", "W" >>
    /\ call.top_k = DefaultTopK
    /\ Len(call.result) = 5
    /\ call.result[1].shift = 3
    /\ call.result[1].pt = << "T", "E", "A", "T" >>

\* C12: the returned sequence is in descending order of score, and candidates
\* of equal score are in first-found order, the smaller shift first.
C12_RankedStable ==
    (call.fn = "break_caesar" /\ call.pc = "returned") =>
        \A n, m \in 1..Len(call.result) :
            n < m =>
                /\ call.result[n].score >= call.result[m].score
                /\ call.result[n].score = call.result[m].score
                      => call.result[n].shift < call.result[m].shift

\* all 25 candidates came back, shift 3 first with the only score above the
\* floor, the 24 others tied and in the order of their shifts
C12_Witness ==
    /\ call.fn = "break_caesar" /\ call.pc = "returned"
    /\ Len(call.result) = 25
    /\ call.result[1].shift = 3
    /\ call.result[1].score > call.result[2].score
    /\ call.result[2].shift = 1 /\ call.result[3].shift = 2 /\ call.result[4].shift = 4
    /\ call.result[2].score = call.result[25].score

----------------------------------------------------------------------------
(* Encrypting with apply_caesar(P, -s), then decrypting with apply_caesar(., s) *)

PlainChars == { "A", "Z", "b", "-" }

Plaintexts == UNION { [1..n -> PlainChars] : n \in 0..MaxPlainLen }

RoundTripInit ==
    /\ SearchIdle
    /\ call \in { [fn |-> "apply_caesar", pc |-> "plain", plain |-> P, shift |-> s,
                   encrypted |-> <<>>, decrypted |-> <<>>] :
                  P \in Plaintexts, s \in 1..25 }

Encrypt ==
    /\ call.fn = "apply_caesar" /\ call.pc = "plain"
    /\ call' = [call EXCEPT !.pc = "encrypted",
                            !.encrypted = apply_caesar(call.plain, 0 - call.shift)]
    /\ UNCHANGED searchVars

Decrypt ==
    /\ call.fn = "apply_caesar" /\ call.pc = "encrypted"
    /\ call' = [call EXCEPT !.pc = "decrypted",
                            !.decrypted = apply_caesar(call.encrypted, call.shift)]
    /\ UNCHANGED searchVars

RoundTripNext == Encrypt \/ Decrypt

RoundTripSpec == RoundTripInit /\ [][RoundTripNext]_vars

\* the characters 'A'..'Z' of a text, in order
RECURSIVE CapitalsOf(_)
CapitalsOf(text) ==
    IF text = <<>> THEN <<>>
    ELSE (IF Head(text) \in Letters THEN << Head(text) >> ELSE <<>>)
         \o CapitalsOf(Tail(text))

\* C13 as stated: encrypting P with shift s and decrypting the result with shift s
\* gives back the letters of P (P case folded, its non-letters left out).
C13_RoundTripLetters ==
    (call.fn = "apply_caesar" /\ call.pc = "decrypted") =>
        call.decrypted = LettersOf(call.plain)

\* C13, amended: encrypting P with shift s and decrypting the result with shift s
\* gives back the upper-case letters A..Z of P in order: lower-case letters are
\* dropped together with the non-letters, not case folded.  For a P that is
\* already normalised (only_letters(P) = P) the round trip gives back P itself.
\* In between, the encrypted text holds for each upper-case letter of P the
\* letter s places after it, counted around the alphabet.
C13_RoundTripCapitals ==
    /\ (call.fn = "apply_caesar" /\ call.pc \in {"encrypted", "decrypted"}) =>
          /\ Len(call.encrypted) = Len(CapitalsOf(call.plain))
          /\ \A p \in 1..Len(call.encrypted) :
                /\ call.encrypted[p] \in Letters
                /\ CapitalsOf(call.plain)[p] = MovedBack(call.encrypted[p], call.shift)
    /\ (call.fn = "apply_caesar" /\ call.pc = "decrypted") =>
          /\ call.decrypted = CapitalsOf(call.plain)
          /\ only_letters(call.plain) = call.plain => call.decrypted = call.plain

\* a plaintext ending in Z went through shift 3 as ...C and came back, the
\* lower-case b before it lost on the way
C13_Witness ==
    /\ call.fn = "apply_caesar" /\ call.pc = "decrypted"
    /\ call.plain = << "A", "b", "Z" >>
    /\ call.shift = 3
    /\ call.encrypted = << "D", "C" >>
    /\ call.decrypted = << "A", "Z" >>

----------------------------------------------------------------------------
(* likely_caesar_gain and the choice main makes with it *)

\* the default of margem, and the value main passes
DefaultMargem == 10

\* mutant: a Caesar score equal to score_sub - margem is enough
likely_caesar_gain_or_equal(score_caesar, score_sub, margem) ==
    score_caesar >= (score_sub - margem)

likely_caesar_gain(score_caesar, score_sub, margem) ==
    score_caesar > (score_sub - margem)

\* the branch main takes, named by what it prints
chosen_method(score_caesar, score_sub, margem) ==
    IF likely_caesar_gain(score_caesar, score_sub, margem)
    THEN "CAESAR" ELSE "SUBSTITUTION"

BestScores == { -100, -91, -90, -89, -80, 50, 79, 80, 81, 85, 90, 100 }

Margems == { 0, 1, DefaultMargem }

DecisionInit ==
    /\ SearchIdle
    /\ call \in { [fn |-> "likely_caesar_gain", pc |-> "called",
                   score_caesar |-> c, score_sub |-> s, margem |-> m,
                   method |-> "none"] :
                  c \in BestScores, s \in BestScores, m \in Margems }

Decide ==
    /\ call.fn = "likely_caesar_gain" /\ call.pc = "called"
    /\ call' = [call EXCEPT !.pc = "returned",
                            !.method = chosen_method(call.score_caesar, call.score_sub,
                                                     call.margem)]
    /\ UNCHANGED searchVars

DecisionNext == Decide

DecisionSpec == DecisionInit /\ [][DecisionNext]_vars

Decided(c, s, m) ==
    /\ call.fn = "likely_caesar_gain" /\ call.pc = "returned"
    /\ call.score_caesar = c /\ call.score_sub = s /\ call.margem = m

\* C14: the decision is CAESAR exactly when the best Caesar score is greater
\* than the best substitution score minus the margin, and SUBSTITUTION otherwise,
\* equality included; (50, 100, 10) gives SUBSTITUTION and (85, 90, 10) CAESAR.
C14_DecisionPolicy ==
    /\ (call.fn = "likely_caesar_gain" /\ call.pc = "returned") =>
          /\ call.method \in { "CAESAR", "SUBSTITUTION" }
          /\ call.method = "CAESAR" <=> call.score_caesar + call.margem > call.score_sub
          /\ call.score_caesar + call.margem = call.score_sub
                => call.method = "SUBSTITUTION"
    /\ Decided(50, 100, 10) => call.method = "SUBSTITUTION"
    /\ Decided(85, 90, 10) => call.method = "CAESAR"

\* the Caesar score was exactly the substitution score minus the margin, and
\* the decision was SUBSTITUTION
C14_Witness ==
    /\ Decided(80, 90, DefaultMargem)
    /\ call.method = "SUBSTITUTION"

----------------------------------------------------------------------------
(* QuadgramScorer.score on scorers of different floors *)

\* longest text given to score()
MaxScoreLen == 5

ScoreChars == { "T", "E", "A", "t", "-" }

ScoreTexts == UNION { [1..n -> ScoreChars] : n \in 0..MaxScoreLen }

\* floor values of the scorers: the one of the table above and a very low one
Floors == { floor, -500000000 }

ScoreInit ==
    /\ SearchIdle
    /\ call \in { [fn |-> "score", pc |-> "called", floor |-> fl, text |-> t,
                   result |-> 0] : fl \in Floors, t \in ScoreTexts }

CallScore ==
    /\ call.fn = "score" /\ call.pc = "called"
    /\ call' = [call EXCEPT !.pc = "returned",
                            !.result = ScoreWith(log_probs, call.floor, call.text)]
    /\ UNCHANGED searchVars

ScoreNext == CallScore

ScoreSpec == ScoreInit /\ [][ScoreNext]_vars

\* C15: score(text) is the sentinel whenever the text has fewer than 4 letters
\* after normalization, and the sentinel is strictly less than the score of
\* every text of 4 or more letters, whatever its length and the table's floor.
C15_SentinelBelowEveryScore ==
    (call.fn = "score" /\ call.pc = "returned") =>
        /\ Len(LettersOf(call.text)) < 4 => call.result = TooShortScore
        /\ Len(LettersOf(call.text)) >= 4 => TooShortScore < call.result

----------------------------------------------------------------------------
(* QuadgramScorer.from_file: the table is kept as counts and total, log_probs[g]
   being log10(counts[g] / total) and floor log10(0.01 / total) *)

\* most lines in a training file
MaxLines == 3

\* a line of the file: the number of its whitespace-separated parts, the first
\* part, and the second with whether int() accepts it
Line(n, g, numeric, c) == [parts |-> n, gram |-> g, numeric |-> numeric, cnt |-> c]

FileLines ==
    { Line(2, << "A", "B", "C", "A" >>, TRUE, 1),
      Line(2, << "A", "B", "C", "A" >>, TRUE, 2),
      Line(2, << "a", "b", "c", "b" >>, TRUE, 1),
      Line(2, << "A", "B", "C", "B" >>, TRUE, 0),
      Line(2, << "A", "B", "C", "A" >>, TRUE, -1),
      Line(2, << "A", "B" >>, TRUE, 3),
      Line(2, << "A", "-", "C", "A" >>, TRUE, 3),
      Line(1, << "A", "B", "C", "A" >>, TRUE, 0),
      Line(2, << "A", "B", "C", "A" >>, FALSE, 0) }

Files == UNION { [1..n -> FileLines] : n \in 0..MaxLines }

\* parts[0].upper()
UpperGram(g) == [ p \in 1..Len(g) |-> Upper(g[p]) ]

\* len(gram) == 4 and all('A' <= c <= 'Z' for c in gram)
IsQuadgram(g) == Len(g) = 4 /\ \A p \in 1..Len(g) : g[p] \in Letters

\* counts[gram] = cnt
put_count(counts, g, c) ==
    [ x \in DOMAIN counts \cup {g} |-> IF x = g THEN c ELSE counts[x] ]

\* one pass of the loop over the lines of the file
read_line(f, line) ==
    IF line.parts /= 2 THEN f
    ELSE IF ~line.numeric THEN [f EXCEPT !.pc = "error", !.error = "ValueError"]
    ELSE IF IsQuadgram(UpperGram(line.gram))
         THEN [f EXCEPT !.counts = put_count(f.counts, UpperGram(line.gram), line.cnt),
                        !.total = f.total + line.cnt]
         ELSE f

\* the statements after the loop: log10 of every count/total, then of 0.01/total
build_table(f) ==
    IF f.total = 0
    THEN [f EXCEPT !.pc = "error", !.error = "ZeroDivisionError"]
    ELSE IF \E g \in DOMAIN f.counts : f.counts[g] * f.total <= 0
    THEN [f EXCEPT !.pc = "error", !.error = "ValueError"]
    ELSE IF f.total < 0
    THEN [f EXCEPT !.pc = "error", !.error = "ValueError"]
    ELSE [f EXCEPT !.pc = "built"]

FromFileInit ==
    /\ SearchIdle
    /\ call \in { [fn |-> "from_file", pc |-> "reading", file |-> file, unread |-> file,
                   counts |-> << >>, total |-> 0, error |-> "none"] : file \in Files }

ReadLine ==
    /\ call.fn = "from_file" /\ call.pc = "reading"
    /\ call.unread /= <<>>
    /\ call' = [read_line(call, Head(call.unread)) EXCEPT !.unread = Tail(call.unread)]
    /\ UNCHANGED searchVars

BuildTable ==
    /\ call.fn = "from_file" /\ call.pc = "reading"
    /\ call.unread = <<>>
    /\ call' = build_table(call)
    /\ UNCHANGED searchVars

FromFileNext == ReadLine \/ BuildTable

FromFileSpec == FromFileInit /\ [][FromFileNext]_vars

\* a valid training record: two parts, a gram of 4 letters, a positive count
ValidRecord(line) ==
    /\ line.parts = 2 /\ line.numeric
    /\ IsQuadgram(UpperGram(line.gram))
    /\ line.cnt > 0

RECURSIVE SumOfCounts(_, _)
SumOfCounts(counts, grams) ==
    IF grams = {} THEN 0
    ELSE LET g == CHOOSE x \in grams : TRUE
         IN  counts[g] + SumOfCounts(counts, grams \ {g})

\* C16: for every sequence of valid training records, the same gram in more than
\* one record included, the counts retained in the built table sum to the total
\* used as the denominator, so the probabilities count/total sum to 1.
C16_ProbabilitiesNormalize ==
    ( /\ call.fn = "from_file" /\ call.pc = "built"
      /\ \A n \in 1..Len(call.file) : ValidRecord(call.file[n]) )
    => SumOfCounts(call.counts, DOMAIN call.counts) = call.total

\* C17: building from data with no valid quadgram record (total = 0) ends in an
\* InvalidTrainingData error and yields no table; no table with an undefined or
\* infinite log-probability or floor is ever constructed.
C17_RejectsEmptyTraining ==
    /\ ( /\ call.fn = "from_file"
         /\ call.pc /= "reading" /\ call.error /= "ValueError"
         /\ call.total = 0 )
       => (call.pc = "error" /\ call.error = "InvalidTrainingData")
    /\ (call.fn = "from_file" /\ call.pc = "built")
       => /\ call.total > 0
          /\ \A g \in DOMAIN call.counts : call.counts[g] > 0

----------------------------------------------------------------------------
(* The order of the trace rows of the search *)

StepRowTypes == { "good candidate", "bad candidate", "restarting" }

IsStepRow(row) == row.type \in StepRowTypes

\* the number of step rows restart i has in the trace
StepRowsOf(infos, i) ==
    Cardinality({ n \in 1..Len(infos) : IsStepRow(infos[n]) /\ infos[n].i = i })

\* C18: the trace is ordered by restart: every restart i opens with its
\* "initial" row, then has one row per executed step, with the step indices
\* 0, 1, 2, ... in order, each a good candidate, a bad candidate or a
\* restarting row; "restarting" occurs at most once per restart and is its last
\* step row; "really good candidate" comes only after all step rows of its
\* restart and before the "initial" row of the next restart.
C18_TraceOrder ==
    LET infos == run.infos
    IN  /\ \A n \in 1..Len(infos) :
              LET row == infos[n]
              IN  /\ row.type \in StepRowTypes \cup { "initial", "really good candidate" }
                  /\ n = 1 => (row.type = "initial" /\ row.i = 0)
                  /\ (n > 1 /\ row.type = "initial") =>
                        /\ row.i = infos[n - 1].i + 1
                        /\ row.j = None
                  /\ (n > 1 /\ IsStepRow(row)) =>
                        /\ row.i = infos[n - 1].i
                        /\ \/ infos[n - 1].type = "initial" /\ row.j = 0
                           \/ /\ infos[n - 1].type \in { "good candidate", "bad candidate" }
                              /\ row.j = infos[n - 1].j + 1
                  /\ (n > 1 /\ row.type = "really good candidate") =>
                        /\ row.i = infos[n - 1].i
                        /\ IsStepRow(infos[n - 1])
                        /\ row.j = infos[n - 1].j
                  /\ \A m \in 1..Len(infos) :
                        (m /= n /\ infos[m].i = row.i /\ infos[m].type = row.type)
                           => row.type \in { "good candidate", "bad candidate" }
        /\ run.i >= 0 => StepRowsOf(infos, run.i) = run.next_j
        /\ run.i >= 0 => \A i \in 0..run.i :
              \E n \in 1..Len(infos) : infos[n].type = "initial" /\ infos[n].i = i

\* restart 0 ran two steps, the second one stagnating, was logged as the best so
\* far, and restart 1 has begun
C18_Witness ==
    /\ Len(run.infos) >= 5
    /\ run.infos[1].type = "initial"
    /\ IsStepRow(run.infos[2]) /\ run.infos[2].j = 0
    /\ run.infos[3].type = "restarting" /\ run.infos[3].j = 1
    /\ run.infos[4].type = "really good candidate" /\ run.infos[4].i = 0
    /\ run.infos[5].type = "initial" /\ run.infos[5].i = 1

------------------------------------------------------------

----------------------------------------------------------------------------
(* Termination of the search *)

\* the candidate evaluations made so far, one step row each
Evaluations == Cardinality({ n \in 1..Len(run.infos) : IsStepRow(run.infos[n]) })

\* the call has ended: no statement of it is left to run
Ended == run.pc \notin { "seeds", "restart", "step", "finish", "export" }

\* C19: the search always terminates: a restart runs at most max_iters steps,
\* at most restarts restarts are run, the candidate evaluations are at most
\* restarts * max_iters in all, and after them the call ends by returning.
C19_TerminatesAndReturns ==
    /\ run.next_j <= Max(max_iters, 0)
    /\ run.i + 1 <= Max(restarts, 0)
    /\ Evaluations <= Max(restarts, 0) * Max(max_iters, 0)
    /\ Ended => run.pc = "done"

----------------------------------------------------------------------------
(* get_quadgrams.py: four_pairwise and form_quadgrams *)

\* longest sequence given to form_quadgrams
MaxQuadLen == 5

QuadItems == { "A", "B", "C" }

QuadInputs == UNION { [1..n -> QuadItems] : n \in 0..MaxQuadLen }

\* next(iterator, None): the item taken, and what is left of the iterator
next_item(rest) == IF rest = <<>> THEN "None" ELSE Head(rest)

advance(rest) == IF rest = <<>> THEN <<>> ELSE Tail(rest)

\* the call; debug is __debug__: without it the assert statement is not run
QuadInit ==
    /\ SearchIdle
    /\ call \in { [fn |-> "form_quadgrams", pc |-> "called", debug |-> dbg,
                   letters |-> l, iterator |-> l,
                   a |-> "None", b |-> "None", c |-> "None",
                   quadgrams |-> <<>>, error |-> "none"] :
                  l \in QuadInputs, dbg \in BOOLEAN }

\* four_pairwise up to its loop: the first three items
TakeThree ==
    /\ call.fn = "form_quadgrams" /\ call.pc = "called"
    /\ call' = [call EXCEPT !.pc = "loop",
                            !.a = next_item(call.iterator),
                            !.b = next_item(advance(call.iterator)),
                            !.c = next_item(advance(advance(call.iterator))),
                            !.iterator = advance(advance(advance(call.iterator)))]
    /\ UNCHANGED searchVars

\* one pass of the loop of four_pairwise, its tuple appended by list()
YieldQuadgram ==
    /\ call.fn = "form_quadgrams" /\ call.pc = "loop"
    /\ call.iterator /= <<>>
    /\ LET d == Head(call.iterator)
       IN  call' = [call EXCEPT !.quadgrams = Append(call.quadgrams,
                                                     << call.a, call.b, call.c, d >>),
                                !.a = call.b, !.b = call.c, !.c = d,
                                !.iterator = Tail(call.iterator)]
    /\ UNCHANGED searchVars

\* the iterator is exhausted: the assert statement and the return
AssertAndReturn ==
    /\ call.fn = "form_quadgrams" /\ call.pc = "loop"
    /\ call.iterator = <<>>
    /\ call' = IF call.debug /\ Len(call.quadgrams) /= Len(call.letters) - 3
               THEN [call EXCEPT !.pc = "error", !.error = "AssertionError"]
               ELSE [call EXCEPT !.pc = "returned"]
    /\ UNCHANGED searchVars

QuadNext == TakeThree \/ YieldQuadgram \/ AssertAndReturn

QuadSpec == QuadInit /\ [][QuadNext]_vars

\* C20: the assertion of form_quadgrams holds for every input sequence, those
\* of length 0, 1 and 2 included: four_pairwise yields exactly len(letters) - 3
\* quadgrams, the k-th being the items at positions k..k+3 in order.
C20_AssertionHolds ==
    (call.fn = "form_quadgrams" /\ call.pc \in { "returned", "error" }) =>
        /\ call.pc = "returned"
        /\ Len(call.quadgrams) = Len(call.letters) - 3
        /\ \A k \in 1..Len(call.quadgrams) :
              call.quadgrams[k] = SubSeq(call.letters, k, k + 3)

====
